---- MODULE Spec2Model ----
(***************************************************************************)
(* ovagen.py: re-specification of an OVA appliance.  main() extracts the   *)
(* archive, copies its members to a working directory, rewrites the OVF    *)
(* descriptor (VirtualSystemType list, user supplied property values),     *)
(* recomputes the SHA1 lines of the manifest and packs a new archive.      *)
(*                                                                         *)
(* Python strings are sequences of one-character strings.  XML names are   *)
(* kept in ElementTree's "{uri}local" notation.  A SHA1 hex digest is kept *)
(* as one opaque symbol that is an injective function of the content.      *)
(* The file system is POSIX (os.sep = "/", text mode writes "\n" as is).   *)
(***************************************************************************)
EXTENDS Naturals, Integers, Sequences, FiniteSets, TLC

VARIABLES
    pc,               \* position in main() (or in a single call)
    src,              \* cmd.src directory: file name -> content
    dst,              \* cmd.dst directory: relative path -> content
    vmx_types,        \* cmd.vmx_types; <<>> is the falsy value (None)
    xml_root,         \* the parsed descriptor (NoDoc before the parse)
    properties_json,  \* the list of property dicts
    idx,              \* position of the loop of prompt_user_for_values
    retries,          \* rejected answers to the current boolean prompt
    user_values,      \* the dict prompt_user_for_values builds
    tty,              \* the prompts passed to input(), in order
    ovf_file,         \* result of find_file_in_subdirectories(dst, "ovf")
    mf_file,          \* result of find_file_in_subdirectories(dst, "mf")
    sha1_values,      \* the dict update_sha1_values builds
    archive,          \* the output archive: NoArchive or member -> content
    error,            \* the exception that ended the run, "" if none
    calls,            \* the functions main() has called, in order
    ret               \* return value of update_system_section

vars == <<pc, src, dst, vmx_types, xml_root, properties_json, idx, retries,
          user_values, tty, ovf_file, mf_file, sha1_values, archive, error,
          calls, ret>>

(***************************************************************************)
(* Bounds of the model.                                                    *)
(***************************************************************************)
MaxVmx == 3        \* longest list of machine versions
MaxRetries == 2    \* most rejected answers to one boolean prompt

(***************************************************************************)
(* Python values.                                                          *)
(***************************************************************************)
None == <<"<None>">>           \* None where a str is expected
NoDoc == <<>>                  \* None where an Element is expected
EmptyDict == <<>>              \* {} : a function with empty domain

DictGet(d, k) == IF k \in DOMAIN d THEN d[k] ELSE None
DictSet(d, k, v) == [x \in DOMAIN d \cup {k} |-> IF x = k THEN v ELSE d[x]]

\* Character strings used by the program.
s_true == <<"t", "r", "u", "e">>
s_false == <<"f", "a", "l", "s", "e">>
s_string == <<"s", "t", "r", "i", "n", "g">>
s_boolean == <<"b", "o", "o", "l", "e", "a", "n">>
s_vmx == <<"v", "m", "x", "-">>
s_sha1 == <<"S", "H", "A", "1", "(">>
s_eqsp == <<"=", " ">>
s_close == <<")">>
s_closeeq == <<")", "=", " ">>
s_nl == <<"\n">>
s_none == <<"N", "o", "n", "e">>
ext_ova == <<".", "o", "v", "a">>
ext_ovf == <<".", "o", "v", "f">>
ext_mf == <<".", "m", "f">>

(***************************************************************************)
(* str methods.                                                            *)
(***************************************************************************)
SetMin(S) == CHOOSE x \in S : \A y \in S : x <= y
SetMax(S) == CHOOSE x \in S : \A y \in S : y <= x

IsSpace(c) == c \in {" ", "\t", "\n", "\r"}

MatchAt(s, p, i) ==
    /\ i >= 1
    /\ i + Len(p) - 1 <= Len(s)
    /\ \A k \in 1..Len(p) : s[i + k - 1] = p[k]

\* s.startswith(p), s.endswith(p)
StartsWith(s, p) == MatchAt(s, p, 1)
EndsWith(s, p) == MatchAt(s, p, Len(s) - Len(p) + 1)

\* s.find(p) + 1 : the first position of p in s, 0 if there is none
IndexOf(s, p) ==
    LET hits == {i \in 1..Len(s) : MatchAt(s, p, i)}
    IN  IF hits = {} THEN 0 ELSE SetMin(hits)

\* s.strip()
Strip(s) ==
    LET keep == {i \in 1..Len(s) : ~IsSpace(s[i])}
    IN  IF keep = {} THEN <<>> ELSE SubSeq(s, SetMin(keep), SetMax(keep))

Uppers == <<"A", "B", "C", "D", "E", "F", "G", "H", "I", "J", "K", "L", "M",
            "N", "O", "P", "Q", "R", "S", "T", "U", "V", "W", "X", "Y", "Z">>
Lowers == <<"a", "b", "c", "d", "e", "f", "g", "h", "i", "j", "k", "l", "m",
            "n", "o", "p", "q", "r", "s", "t", "u", "v", "w", "x", "y", "z">>
LowerChar(c) ==
    IF \E i \in 1..26 : Uppers[i] = c
    THEN Lowers[CHOOSE i \in 1..26 : Uppers[i] = c]
    ELSE c

\* s.lower()
Lower(s) == [i \in 1..Len(s) |-> LowerChar(s[i])]

\* s.split(sep), sep not empty
RECURSIVE Split(_, _)
Split(s, sep) ==
    LET i == IndexOf(s, sep)
    IN  IF i = 0 THEN <<s>>
        ELSE <<SubSeq(s, 1, i - 1)>> \o Split(SubSeq(s, i + Len(sep), Len(s)), sep)

\* s.replace(old, new), old not empty
RECURSIVE Replace(_, _, _)
Replace(s, old, new) ==
    LET i == IndexOf(s, old)
    IN  IF i = 0 THEN s
        ELSE SubSeq(s, 1, i - 1) \o new
             \o Replace(SubSeq(s, i + Len(old), Len(s)), old, new)

\* sep.join(parts)
RECURSIVE Join(_, _)
Join(parts, sep) ==
    IF Len(parts) = 0 THEN <<>>
    ELSE IF Len(parts) = 1 THEN parts[1]
    ELSE parts[1] \o sep \o Join(Tail(parts), sep)

\* str(n) of an int
DigitChars == <<"0", "1", "2", "3", "4", "5", "6", "7", "8", "9">>
RECURSIVE Digits(_)
Digits(n) ==
    IF n < 10 THEN <<DigitChars[n + 1]>>
    ELSE Digits(n \div 10) \o <<DigitChars[(n % 10) + 1]>>
IntStr(n) == IF n < 0 THEN <<"-">> \o Digits(0 - n) ELSE Digits(n)

\* An f-string's rendering of a value that may be None.
Fmt(v) == IF v = None THEN s_none ELSE v

(***************************************************************************)
(* xml.etree.ElementTree.  A document is the sequence of its elements in   *)
(* document order, each with its depth (the root has depth 0): node i's    *)
(* parent is the nearest earlier node one level up.  An element's text is  *)
(* a string, or None when the element has none.  Tails are not kept.       *)
(***************************************************************************)
OVF == "http://schemas.dmtf.org/ovf/envelope/1"
VSSD == "http://schemas.dmtf.org/wbem/wscim/1/cim-schema/2/CIM_VirtualSystemSettingData"

\* The name ElementTree gives a namespace-qualified tag or attribute.
QName(ns, local) == IF ns = "" THEN local ELSE "{" \o ns \o "}" \o local

El(ns, local, attrib, text, depth) ==
    [tag |-> QName(ns, local), attrib |-> attrib, text |-> text, depth |-> depth]
Attr(ns, local, value) == [ns |-> ns, local |-> local, value |-> value]

Parent(doc, i) ==
    LET up == {j \in 1..(i - 1) : doc[j].depth = doc[i].depth - 1}
    IN  IF up = {} THEN 0 ELSE SetMax(up)

\* i is below a in the tree
IsDescendant(doc, a, i) ==
    /\ a < i
    /\ \A j \in (a + 1)..i : doc[j].depth > doc[a].depth

\* the increasing sequence of the members of a set of positions
RECURSIVE SortedSeq(_)
SortedSeq(S) ==
    IF S = {} THEN <<>>
    ELSE LET m == SetMin(S) IN <<m>> \o SortedSeq(S \ {m})

\* a.findall('.//tag') : every descendant with that tag, in document order
FindAll(doc, a, tag) ==
    SortedSeq({i \in 1..Len(doc) : IsDescendant(doc, a, i) /\ doc[i].tag = tag})

\* a.find('.//tag') : the first such descendant, 0 for None
FindDesc(doc, a, tag) ==
    LET all == FindAll(doc, a, tag)
    IN  IF Len(all) = 0 THEN 0 ELSE all[1]

\* a.find(tag) : the first child with that tag, 0 for None
FindChild(doc, a, tag) ==
    LET kids == {i \in 1..Len(doc) : Parent(doc, i) = a /\ doc[i].tag = tag}
    IN  IF kids = {} THEN 0 ELSE SetMin(kids)

\* elem.get(name) : the value of the attribute with exactly that name
GetAttr(node, name) ==
    LET hits == {k \in 1..Len(node.attrib) :
                    QName(node.attrib[k].ns, node.attrib[k].local) = name}
    IN  IF hits = {} THEN None ELSE node.attrib[SetMax(hits)].value

\* list(elem.itertext()) : the non-empty texts of elem and its descendants
IterText(doc, a) ==
    LET at == {i \in 1..Len(doc) :
                 /\ (i = a \/ IsDescendant(doc, a, i))
                 /\ doc[i].text # None /\ doc[i].text # <<>>}
        order == SortedSeq(at)
    IN  [k \in 1..Len(order) |-> doc[order[k]].text]

SetText(doc, i, text) == [doc EXCEPT ![i].text = text]

(***************************************************************************)
(* system_section, update_system_section                                   *)
(***************************************************************************)
SystemSection(doc) == FindDesc(doc, 1, QName(OVF, "System"))

\* the f-string of line 351 without its "vmx-" prefix
VmxToken_NoPrefix(vmx_type) == IntStr(vmx_type)

VmxToken(vmx_type) == s_vmx \o IntStr(vmx_type)

VirtualSystemTypeText(types) ==
    Join([i \in 1..Len(types) |-> VmxToken(types[i])], <<" ">>)

\* line 349 testing the VirtualSystemType element alone, as line 350 does
SystemGuard_TypeOnly(element_name_elem, virtual_system_type_elem) ==
    virtual_system_type_elem # 0

\* line 349: both sub-elements must be there
SystemGuard(element_name_elem, virtual_system_type_elem) ==
    element_name_elem # 0 /\ virtual_system_type_elem # 0

\* [doc |-> the tree after the call, ret |-> what the call returns]
UpdateSystemSection(doc, types) ==
    LET system_elem == SystemSection(doc)
        element_name_elem == FindChild(doc, system_elem, QName(VSSD, "ElementName"))
        virtual_system_type_elem ==
            FindChild(doc, system_elem, QName(VSSD, "VirtualSystemType"))
    IN  IF system_elem # 0
        THEN IF SystemGuard(element_name_elem, virtual_system_type_elem)
             THEN LET new == SetText(doc, virtual_system_type_elem,
                                     VirtualSystemTypeText(types))
                  IN  [doc |-> new, ret |-> new]
             ELSE [doc |-> doc, ret |-> doc]
        ELSE [doc |-> doc, ret |-> NoDoc]

(***************************************************************************)
(* Files.  A file's content is raw bytes, or a well-formed XML document    *)
(* (the tree, and whether the bytes are as authored or as ElementTree      *)
(* writes them), or a tar archive (member name -> content).                *)
(***************************************************************************)
Bytes(data) == [kind |-> "bytes", data |-> data]
Xml(doc, form) == [kind |-> "xml", doc |-> doc, form |-> form]
Tar(members) == [kind |-> "tar", members |-> members]
NoArchive == [kind |-> "none"]

\* hashlib.sha1(file_data).hexdigest() : one symbol, injective in the content
Sha1Hex(content) == <<"sha1:" \o ToString(content)>>

\* open(path, 'r').readlines() : universal newlines, line ends kept
UniversalNewlines(data) ==
    Replace(Replace(data, <<"\r", "\n">>, s_nl), <<"\r">>, s_nl)

RECURSIVE SplitLines(_)
SplitLines(text) ==
    LET i == IndexOf(text, s_nl)
    IN  IF Len(text) = 0 THEN <<>>
        ELSE IF i = 0 THEN <<text>>
        ELSE <<SubSeq(text, 1, i)>> \o SplitLines(SubSeq(text, i + 1, Len(text)))

ReadLines(content) == SplitLines(UniversalNewlines(content.data))

\* mf_file.writelines(mf_lines)
WriteLines(lines) == Bytes(Join(lines, <<>>))

\* filename.endswith(f".{file_extension}") over os.walk(base_dir)
FilesWithExtension(dir, ext) == {p \in DOMAIN dir : EndsWith(p, ext)}

(***************************************************************************)
(* update_sha1_values                                                      *)
(***************************************************************************)
\* lines 300-307: a digest for every file of the walk, by relative path
ComputeSha1Values(dir) == [p \in DOMAIN dir |-> Sha1Hex(dir[p])]

\* lines 313-318: one line of the manifest
UpdateLine(line, sha1) ==
    LET stripped == Strip(line)
        file_info == Split(stripped, s_eqsp)
        file_name == Replace(Replace(file_info[1], s_sha1, <<>>), s_close, <<>>)
    IN  IF StartsWith(stripped, s_sha1) /\ file_name \in DOMAIN sha1
        THEN s_sha1 \o file_name \o s_closeeq \o sha1[file_name] \o s_nl
        ELSE line

\* lines 310-322: the manifest after the call
UpdateManifest(content, sha1) ==
    LET mf_lines == ReadLines(content)
    IN  WriteLines([i \in 1..Len(mf_lines) |-> UpdateLine(mf_lines[i], sha1)])

(***************************************************************************)
(* find_product_section, property_to_json, properties_to_json              *)
(***************************************************************************)
FindProductSection(doc) == FindDesc(doc, 1, QName(OVF, "ProductSection"))

\* remove_namespace_prefix(text) = text.split('}')[1] : the local name of a
\* "{uri}local" name; a name with no "}" has no second piece (IndexError).
HasSecondPiece(attr) == attr.ns # ""
RemoveNamespacePrefix(attr) == attr.local

LabelOf(doc, p) == FindChild(doc, p, QName(OVF, "Label"))
DescriptionOf(doc, p) == FindChild(doc, p, QName(OVF, "Description"))

\* property_to_json raises IndexError: an unqualified attribute name, or a
\* Label or Description with no text at all (list(...)[0] of an empty list)
PropertyRaises(doc, p) ==
    \/ \E k \in 1..Len(doc[p].attrib) : ~HasSecondPiece(doc[p].attrib[k])
    \/ LabelOf(doc, p) # 0 /\ Len(IterText(doc, LabelOf(doc, p))) = 0
    \/ DescriptionOf(doc, p) # 0 /\ Len(IterText(doc, DescriptionOf(doc, p))) = 0

\* lines 59-68: a parsed local name holds no ":", so "ovf:" is always added
RECURSIVE AttribDict(_, _)
AttribDict(attrib, k) ==
    IF k = 0 THEN EmptyDict
    ELSE DictSet(AttribDict(attrib, k - 1),
                 "ovf:" \o RemoveNamespacePrefix(attrib[k]), attrib[k].value)

PropertyToJson(doc, p) ==
    LET d0 == AttribDict(doc[p].attrib, Len(doc[p].attrib))
        d1 == IF LabelOf(doc, p) # 0
              THEN DictSet(d0, "Label", IterText(doc, LabelOf(doc, p))[1])
              ELSE d0
    IN  IF DescriptionOf(doc, p) # 0
        THEN DictSet(d1, "Description", IterText(doc, DescriptionOf(doc, p))[1])
        ELSE d1

PropertiesToJson(doc, product_tree) ==
    LET props == FindAll(doc, product_tree, QName(OVF, "Property"))
    IN  [k \in 1..Len(props) |-> PropertyToJson(doc, props[k])]

(***************************************************************************)
(* prompt_user_for_values                                                  *)
(***************************************************************************)
\* line 163 comparing without regard to case
IsUserConfigurable_AnyCase(prop) ==
    Lower(DictGet(prop, "ovf:userConfigurable")) = s_true

\* line 163
IsUserConfigurable(prop) == DictGet(prop, "ovf:userConfigurable") = s_true

\* lines 164, 169
PromptKind(prop) ==
    IF ~IsUserConfigurable(prop) THEN "skip"
    ELSE IF DictGet(prop, "ovf:type") = s_string THEN "string"
    ELSE IF DictGet(prop, "ovf:type") = s_boolean THEN "boolean"
    ELSE "skip"

\* the prompts of lines 166 and 172
StringPrompt(label) == <<"Enter value for '">> \o Fmt(label) \o <<"': ">>
BooleanPrompt(label) == <<"Enter value for '">> \o Fmt(label) \o <<"' (True/False): ">>

\* line 172 without its strip()
NormalizeAnswer_NoStrip(answer) == Lower(answer)

\* line 172: input(...).strip().lower()
NormalizeAnswer(answer) == Lower(Strip(answer))

\* line 173
IsAccepted(value) == value \in {s_true, s_false, <<>>}

\* lines 174-175
BooleanValue(value) == IF value = <<>> THEN s_true ELSE value

(***************************************************************************)
(* update_ovf_with_user_values                                             *)
(***************************************************************************)
\* lines 112-116 for the Property elements props[k..], in document order
RECURSIVE MergeFrom(_, _, _, _)
MergeFrom(doc, props, k, values) ==
    IF k > Len(props) THEN doc
    ELSE LET ovf_key == GetAttr(doc[props[k]], "ovf:key")
             label_elem == LabelOf(doc, props[k])
         IN  IF ovf_key \in DOMAIN values /\ label_elem # 0
             THEN MergeFrom(SetText(doc, label_elem, values[ovf_key]),
                            props, k + 1, values)
             ELSE MergeFrom(doc, props, k + 1, values)

MergeUserValues(doc, values) ==
    MergeFrom(doc, FindAll(doc, 1, QName(OVF, "Property")), 1, values)

(***************************************************************************)
(* The inputs of the model: texts, file names, manifest lines, documents.  *)
(***************************************************************************)
t_org == <<"o", "r", "g">>
t_Organization == <<"O", "r", "g", "a", "n", "i", "z", "a", "t", "i", "o", "n">>
t_OrgName == <<"O", "r", "g", "a", "n", "i", "z", "a", "t", "i", "o", "n", " ", "N", "a", "m", "e">>
t_Title == <<"T", "i", "t", "l", "e">>
t_Acme == <<"A", "c", "m", "e">>
t_dbg == <<"d", "b", "g">>
t_Debug == <<"D", "e", "b", "u", "g">>
t_ver == <<"v", "e", "r">>
t_Version == <<"V", "e", "r", "s", "i", "o", "n">>
t_one == <<"1">>
t_hid == <<"h", "i", "d">>
t_cnt == <<"c", "n", "t">>
t_int == <<"i", "n", "t">>
t_Count == <<"C", "o", "u", "n", "t">>
t_opt == <<"o", "p", "t">>
t_Option == <<"O", "p", "t", "i", "o", "n">>
t_raw == <<"r", "a", "w">>
t_Raw == <<"R", "a", "w">>
t_True == <<"T", "r", "u", "e">>
t_FALSE == <<"F", "A", "L", "S", "E">>
t_true_padded == <<" ", "t", "r", "u", "e", " ">>
t_yes == <<"y", "e", "s">>
t_blank == <<" ">>
t_family == <<"V", "i", "r", "t", "u", "a", "l", " ", "H", "a", "r", "d", "w", "a", "r", "e", " ", "F", "a", "m", "i", "l", "y">>
t_zero == <<"0">>
t_vmx9 == <<"v", "m", "x", "-", "9">>
f_ova == <<"p", ".", "o", "v", "a">>
f_ovf == <<"p", ".", "o", "v", "f">>
f_mf == <<"p", ".", "m", "f">>
f_disk == <<"d", "i", "s", "k", "1", ".", "v", "m", "d", "k">>
f_par == <<"d", "(", "1", ")">>
f_cut == <<"d", "(", "1">>
f_sub == <<"s", "/", "d">>
f_txt == <<"r", "e", "a", "d", "m", "e">>
l_disk == <<"S", "H", "A", "1", "(", "d", "i", "s", "k", "1", ".", "v", "m", "d", "k", ")", "=", " ", "0", "0", "\n">>
l_ovf == <<"S", "H", "A", "1", "(", "p", ".", "o", "v", "f", ")", "=", " ", "0", "0", "\n">>
l_par == <<"S", "H", "A", "1", "(", "d", "(", "1", ")", ")", "=", " ", "0", "0", "\n">>
l_disk_crlf == <<"S", "H", "A", "1", "(", "d", "i", "s", "k", "1", ".", "v", "m", "d", "k", ")", "=", " ", "0", "0", "\r", "\n">>
l_note_crlf == <<"#", " ", "n", "o", "t", "e", "\r", "\n">>
l_note == <<"#", " ", "n", "o", "t", "e", "\n">>
l_self == <<"S", "H", "A", "1", "(", "p", ".", "m", "f", ")", "=", " ", "0", "0", "\n">>
l_unknown == <<"S", "H", "A", "1", "(", "z", "z", ")", "=", " ", "0", "0", "\n">>
l_open == <<"S", "H", "A", "1", "(", "d", "i", "s", "k", "1", ".", "v", "m", "d", "k">>
l_disk_head == <<"S", "H", "A", "1", "(", "d", "i", "s", "k", "1", ".", "v", "m", "d", "k", ")", "=", " ">>

\* payload bytes, and bytes that are no well-formed XML
c_x == Bytes(<<"x">>)
c_y == Bytes(<<"y">>)
c_bad == Bytes(<<"<", "a">>)

\* what the user may type at a prompt
Responses == {t_Acme, t_True, t_FALSE, t_true_padded, <<>>, t_yes, t_blank}

\* the elements of a descriptor, by depth
Envelope == <<El(OVF, "Envelope", <<>>, None, 0), El(OVF, "VirtualSystem", <<>>, None, 1)>>
Section(props) == <<El(OVF, "ProductSection", <<>>, None, 2)>> \o props
Prop(attrib, kids) == <<El(OVF, "Property", attrib, None, 3)>> \o kids
Label(text) == <<El(OVF, "Label", <<>>, text, 4)>>
Description(text) == <<El(OVF, "Description", <<>>, text, 4)>>
PropAttrs(key, type, configurable, value) ==
    <<Attr(OVF, "key", key), Attr(OVF, "type", type),
      Attr(OVF, "userConfigurable", configurable), Attr(OVF, "value", value)>>
Hardware(systems) == <<El(OVF, "VirtualHardwareSection", <<>>, None, 2)>> \o systems
System(kids) == <<El(OVF, "System", <<>>, None, 3)>> \o kids
ElementName == <<El(VSSD, "ElementName", <<>>, t_family, 4)>>
InstanceID == <<El(VSSD, "InstanceID", <<>>, t_zero, 4)>>
VirtualSystemType == <<El(VSSD, "VirtualSystemType", <<>>, t_vmx9, 4)>>

\* Property elements
P_org == Prop(PropAttrs(t_org, s_string, s_true, <<>>),
              Label(t_Organization) \o Description(t_OrgName))
P_same == Prop(PropAttrs(t_org, s_string, s_true, <<>>), Label(t_org))
P_title == Prop(PropAttrs(t_Organization, s_string, s_false, <<>>), Label(t_Title))
P_bool == Prop(PropAttrs(t_dbg, s_boolean, s_true, <<>>), Label(t_Debug))
P_fixed == Prop(PropAttrs(t_ver, s_string, s_false, t_one), Label(t_Version))
P_nolabel == Prop(PropAttrs(t_hid, s_string, s_true, <<>>), <<>>)
P_int == Prop(PropAttrs(t_cnt, t_int, s_true, t_one), Label(t_Count))
P_True == Prop(PropAttrs(t_opt, s_boolean, t_True, t_one), Label(t_Option))
P_unset == Prop(<<Attr(OVF, "key", t_raw), Attr(OVF, "type", s_boolean)>>, Label(t_Raw))
P_unqualified == Prop(<<Attr("", "key", t_org)>>, Label(t_Organization))
P_emptylabel == Prop(PropAttrs(t_org, s_string, s_true, <<>>), Label(None))

FullSystem == System(ElementName \o InstanceID \o VirtualSystemType)

\* the descriptors main() is run on
D_org == Envelope \o Section(P_org) \o Hardware(FullSystem)
D_same == Envelope \o Section(P_same \o P_fixed) \o Hardware(FullSystem)
D_bool == Envelope \o Section(P_bool \o P_fixed) \o Hardware(System(ElementName \o InstanceID))
D_nolabel == Envelope \o Section(P_nolabel \o P_org)
D_types == Envelope \o Section(P_int \o P_True \o P_unset \o P_bool) \o Hardware(FullSystem)
D_two == Envelope \o Section(P_org) \o Section(P_title) \o Hardware(FullSystem)
D_unqualified == Envelope \o Section(P_unqualified) \o Hardware(FullSystem)
D_emptylabel == Envelope \o Section(P_emptylabel)
D_nosection == Envelope \o Hardware(FullSystem)
Docs == {D_org, D_same, D_bool, D_nolabel, D_types, D_two, D_unqualified,
         D_emptylabel, D_nosection}

\* the documents update_system_section is called on
S_full == D_org
S_notype == Envelope \o Section(P_org) \o Hardware(System(ElementName \o InstanceID))
S_noname == Envelope \o Hardware(System(InstanceID \o VirtualSystemType)) \o Section(P_fixed)
S_empty == Envelope \o Hardware(System(<<>>))
S_reversed == Envelope \o Hardware(System(VirtualSystemType \o ElementName))
S_twotypes == Envelope \o Hardware(System(ElementName \o VirtualSystemType \o VirtualSystemType))
S_twosystems == Envelope \o Hardware(FullSystem \o FullSystem)
S_second == Envelope \o Hardware(System(ElementName) \o FullSystem)
S_nosystem == Envelope \o Section(P_org)
SystemDocs == {S_full, S_notype, S_noname, S_empty, S_reversed, S_twotypes,
               S_twosystems, S_second, S_nosystem}

\* machine versions, and the lists of them of at most MaxVmx entries
VmxInts == {0 - 3, 0, 10, 11, 12}
VmxLists == UNION {[1..n -> VmxInts] : n \in 0..MaxVmx}

\* the manifests main() is run on
Manifests ==
    { l_disk,
      l_ovf \o l_disk,
      l_par \o l_note,
      l_disk_crlf \o l_note_crlf,
      l_self \o l_disk,
      l_unknown \o l_open,
      l_disk_head \o Sha1Hex(c_x) \o s_nl }

\* the payload members of the archive
Payloads ==
    { (f_disk :> c_x),
      (f_disk :> c_y) @@ (f_par :> c_x),
      (f_par :> c_x) @@ (f_cut :> c_y) @@ (f_sub :> c_x) }

DescriptorMembers ==
    {EmptyDict, (f_ovf :> c_bad)} \cup {(f_ovf :> Xml(d, "authored")) : d \in Docs}
ManifestMembers == {EmptyDict} \cup {(f_mf :> Bytes(m)) : m \in Manifests}

\* the source directories main() is run on
Sources ==
    {(f_txt :> c_x), (f_ova :> c_bad)}
    \cup {(f_ova :> Tar(d @@ m @@ p)) :
             d \in DescriptorMembers, m \in ManifestMembers, p \in Payloads}

(***************************************************************************)
(* Directories.                                                            *)
(***************************************************************************)
Unset == <<"<unset>">>         \* a local of main() not assigned yet

\* the files of directory a after the files of b are written into it
Overlay(a, b) ==
    [p \in DOMAIN a \cup DOMAIN b |-> IF p \in DOMAIN b THEN b[p] ELSE a[p]]

\* os.listdir(dir) entries that are regular files: paths with no "/"
TopLevelFiles(dir) == {p \in DOMAIN dir : IndexOf(p, <<"/">>) = 0}

\* extract_ova, lines 194-197: the .ova entries of os.listdir(src_dir)
OvaFiles(dir) == {p \in TopLevelFiles(dir) : EndsWith(p, ext_ova)}

\* find_file_in_subdirectories: the first match of the walk (any of the
\* matches, the order of a directory listing being arbitrary), or None
FindFileInSubdirectories(dir, ext) ==
    IF FilesWithExtension(dir, ext) = {} THEN {None}
    ELSE FilesWithExtension(dir, ext)

(***************************************************************************)
(* main(), one action per call it makes.                                   *)
(***************************************************************************)
Init ==
    /\ pc = "extract_ova"
    /\ src \in Sources
    /\ dst = EmptyDict
    /\ vmx_types \in {<<>>, <<10, 11, 12>>}
    /\ xml_root = NoDoc
    /\ properties_json = <<>>
    /\ idx = 0
    /\ retries = 0
    /\ user_values = EmptyDict
    /\ tty = <<>>
    /\ ovf_file = Unset
    /\ mf_file = Unset
    /\ sha1_values = EmptyDict
    /\ archive = NoArchive
    /\ error = ""
    /\ calls = <<>>
    /\ ret = NoDoc

\* line 364, extract_ova (lines 185-209)
ExtractOva ==
    /\ pc = "extract_ova"
    /\ calls' = Append(calls, "extract_ova")
    /\ \/ /\ OvaFiles(src) = {}
          /\ error' = "FileNotFoundError"
          /\ pc' = "failed"
          /\ UNCHANGED src
       \/ \E ova_file \in OvaFiles(src) :
             /\ src[ova_file].kind = "tar"
             /\ src' = Overlay(src, src[ova_file].members)
             /\ pc' = "copy_files"
             /\ UNCHANGED error
       \/ \E ova_file \in OvaFiles(src) :
             /\ src[ova_file].kind # "tar"
             /\ error' = "RuntimeError"
             /\ pc' = "failed"
             /\ UNCHANGED src
    /\ UNCHANGED <<dst, vmx_types, xml_root, properties_json, idx, retries,
                   user_values, tty, ovf_file, mf_file, sha1_values, archive, ret>>

\* lines 365-366, copy_files (lines 212-229)
CopyFiles ==
    /\ pc = "copy_files"
    /\ calls' = Append(calls, "copy_files")
    /\ dst' = Overlay(dst, [p \in {q \in TopLevelFiles(src) : ~EndsWith(q, ext_ova)}
                              |-> src[p]])
    /\ pc' = "find_ovf"
    /\ UNCHANGED <<src, vmx_types, xml_root, properties_json, idx, retries,
                   user_values, tty, ovf_file, mf_file, sha1_values, archive,
                   error, ret>>

\* line 369
FindOvf ==
    /\ pc = "find_ovf"
    /\ calls' = Append(calls, "find_file_in_subdirectories")
    /\ ovf_file' \in FindFileInSubdirectories(dst, ext_ovf)
    /\ pc' = "parse"
    /\ UNCHANGED <<src, dst, vmx_types, xml_root, properties_json, idx, retries,
                   user_values, tty, mf_file, sha1_values, archive, error, ret>>

\* lines 370-371: ET.parse opens the path it is given
Parse ==
    /\ pc = "parse"
    /\ calls' = Append(calls, "ET.parse")
    /\ \/ /\ ovf_file = None
          /\ error' = "TypeError"
          /\ pc' = "failed"
          /\ UNCHANGED xml_root
       \/ /\ ovf_file # None
          /\ dst[ovf_file].kind # "xml"
          /\ error' = "ParseError"
          /\ pc' = "failed"
          /\ UNCHANGED xml_root
       \/ /\ ovf_file # None
          /\ dst[ovf_file].kind = "xml"
          /\ xml_root' = dst[ovf_file].doc
          /\ pc' = "update_system_section"
          /\ UNCHANGED error
    /\ UNCHANGED <<src, dst, vmx_types, properties_json, idx, retries,
                   user_values, tty, ovf_file, mf_file, sha1_values, archive, ret>>

\* lines 374-375
SystemStage ==
    /\ pc = "update_system_section"
    /\ IF vmx_types # <<>>
       THEN /\ calls' = Append(calls, "update_system_section")
            /\ xml_root' = UpdateSystemSection(xml_root, vmx_types).doc
       ELSE UNCHANGED <<calls, xml_root>>
    /\ pc' = "generate_new_ovf"
    /\ UNCHANGED <<src, dst, vmx_types, properties_json, idx, retries,
                   user_values, tty, ovf_file, mf_file, sha1_values, archive,
                   error, ret>>

\* lines 379-381 and 277-279: the second search finds the file of the first;
\* generate_new_ovf up to the first prompt
GenerateNewOvf ==
    /\ pc = "generate_new_ovf"
    /\ calls' = calls \o <<"find_file_in_subdirectories", "generate_new_ovf">>
    /\ LET product_section == FindProductSection(xml_root)
           props == FindAll(xml_root, product_section, QName(OVF, "Property"))
       IN  \/ /\ product_section = 0
              /\ error' = "AttributeError"
              /\ pc' = "failed"
              /\ UNCHANGED <<properties_json, idx>>
           \/ /\ product_section # 0
              /\ \E k \in 1..Len(props) : PropertyRaises(xml_root, props[k])
              /\ error' = "IndexError"
              /\ pc' = "failed"
              /\ UNCHANGED <<properties_json, idx>>
           \/ /\ product_section # 0
              /\ \A k \in 1..Len(props) : ~PropertyRaises(xml_root, props[k])
              /\ properties_json' = PropertiesToJson(xml_root, product_section)
              /\ idx' = 1
              /\ pc' = "prompt"
              /\ UNCHANGED error
    /\ UNCHANGED <<src, dst, vmx_types, xml_root, retries, user_values, tty,
                   ovf_file, mf_file, sha1_values, archive, ret>>

\* lines 157-163: a property that gets no prompt
SkipProperty ==
    /\ pc = "prompt"
    /\ idx <= Len(properties_json)
    /\ PromptKind(properties_json[idx]) = "skip"
    /\ idx' = idx + 1
    /\ UNCHANGED <<pc, src, dst, vmx_types, xml_root, properties_json, retries,
                   user_values, tty, ovf_file, mf_file, sha1_values, archive,
                   error, calls, ret>>

\* lines 164-168
PromptString ==
    /\ pc = "prompt"
    /\ idx <= Len(properties_json)
    /\ PromptKind(properties_json[idx]) = "string"
    /\ \E value \in Responses :
          LET label == DictGet(properties_json[idx], "Label")
          IN  /\ tty' = Append(tty, [prompt |-> StringPrompt(label), answer |-> value])
              /\ properties_json' =
                     [properties_json EXCEPT ![idx] = DictSet(@, "ovf:value", value)]
              /\ user_values' = DictSet(user_values, label, value)
    /\ idx' = idx + 1
    /\ UNCHANGED <<pc, src, dst, vmx_types, xml_root, retries, ovf_file, mf_file,
                   sha1_values, archive, error, calls, ret>>

\* lines 169-180: one turn of the while loop
PromptBoolean ==
    /\ pc = "prompt"
    /\ idx <= Len(properties_json)
    /\ PromptKind(properties_json[idx]) = "boolean"
    /\ \E answer \in Responses :
          LET label == DictGet(properties_json[idx], "Label")
              value == NormalizeAnswer(answer)
          IN  /\ tty' = Append(tty, [prompt |-> BooleanPrompt(label), answer |-> answer])
              /\ IF IsAccepted(value)
                 THEN /\ properties_json' =
                             [properties_json EXCEPT
                                 ![idx] = DictSet(@, "ovf:value", BooleanValue(value))]
                      /\ user_values' = DictSet(user_values, label, BooleanValue(value))
                      /\ idx' = idx + 1
                      /\ retries' = 0
                 ELSE /\ retries < MaxRetries
                      /\ retries' = retries + 1
                      /\ UNCHANGED <<properties_json, user_values, idx>>
    /\ UNCHANGED <<pc, src, dst, vmx_types, xml_root, ovf_file, mf_file,
                   sha1_values, archive, error, calls, ret>>

\* lines 182, 281-286 and 100-127: the loop is over; merge and write
UpdateOvfWithUserValues ==
    /\ pc = "prompt"
    /\ idx > Len(properties_json)
    /\ calls' = Append(calls, "update_ovf_with_user_values")
    /\ xml_root' = MergeUserValues(xml_root, user_values)
    /\ dst' = [dst EXCEPT ![ovf_file] = Xml(xml_root', "etree")]
    /\ pc' = "find_mf"
    /\ UNCHANGED <<src, vmx_types, properties_json, idx, retries, user_values,
                   tty, ovf_file, mf_file, sha1_values, archive, error, ret>>

\* line 384
FindMf ==
    /\ pc = "find_mf"
    /\ calls' = Append(calls, "find_file_in_subdirectories")
    /\ mf_file' \in FindFileInSubdirectories(dst, ext_mf)
    /\ pc' = "update_sha1_values"
    /\ UNCHANGED <<src, dst, vmx_types, xml_root, properties_json, idx, retries,
                   user_values, tty, ovf_file, sha1_values, archive, error, ret>>

\* line 385, update_sha1_values (lines 289-322): the digests are computed
\* before the manifest is opened
UpdateSha1Values ==
    /\ pc = "update_sha1_values"
    /\ calls' = Append(calls, "update_sha1_values")
    /\ sha1_values' = ComputeSha1Values(dst)
    /\ \/ /\ mf_file = None
          /\ error' = "TypeError"
          /\ pc' = "failed"
          /\ UNCHANGED dst
       \/ /\ mf_file # None
          /\ dst' = [dst EXCEPT ![mf_file] = UpdateManifest(dst[mf_file], sha1_values')]
          /\ pc' = "create_tar_archive"
          /\ UNCHANGED error
    /\ UNCHANGED <<src, vmx_types, xml_root, properties_json, idx, retries,
                   user_values, tty, ovf_file, mf_file, archive, ret>>

\* line 387, create_tar_archive (lines 251-262)
CreateTarArchive ==
    /\ pc = "create_tar_archive"
    /\ calls' = Append(calls, "create_tar_archive")
    /\ archive' = Tar(dst)
    /\ pc' = "done"
    /\ UNCHANGED <<src, dst, vmx_types, xml_root, properties_json, idx, retries,
                   user_values, tty, ovf_file, mf_file, sha1_values, error, ret>>

Next ==
    \/ ExtractOva
    \/ CopyFiles
    \/ FindOvf
    \/ Parse
    \/ SystemStage
    \/ GenerateNewOvf
    \/ SkipProperty
    \/ PromptString
    \/ PromptBoolean
    \/ UpdateOvfWithUserValues
    \/ FindMf
    \/ UpdateSha1Values
    \/ CreateTarArchive

Spec == Init /\ [][Next]_vars

(***************************************************************************)
(* update_system_section called on its own, on any document and list.      *)
(***************************************************************************)
InitSystem ==
    /\ pc = "call"
    /\ src = EmptyDict
    /\ dst = EmptyDict
    /\ vmx_types \in VmxLists
    /\ xml_root \in SystemDocs
    /\ properties_json = <<>>
    /\ idx = 0
    /\ retries = 0
    /\ user_values = EmptyDict
    /\ tty = <<>>
    /\ ovf_file = Unset
    /\ mf_file = Unset
    /\ sha1_values = EmptyDict
    /\ archive = NoArchive
    /\ error = ""
    /\ calls = <<>>
    /\ ret = NoDoc

CallUpdateSystemSection ==
    /\ pc = "call"
    /\ calls' = Append(calls, "update_system_section")
    /\ xml_root' = UpdateSystemSection(xml_root, vmx_types).doc
    /\ ret' = UpdateSystemSection(xml_root, vmx_types).ret
    /\ pc' = "returned"
    /\ UNCHANGED <<src, dst, vmx_types, properties_json, idx, retries,
                   user_values, tty, ovf_file, mf_file, sha1_values, archive, error>>

NextSystem == CallUpdateSystemSection

SpecSystem == InitSystem /\ [][NextSystem]_vars

(***************************************************************************)
(* Notions the claims are stated with.                                     *)
(***************************************************************************)
\* the bytes of a file cut after each "\n"
RawLines(content) == SplitLines(content.data)

\* a line without its line end
LineBody(line) ==
    LET n == Len(line)
        m == IF n >= 1 /\ line[n] = "\n" THEN n - 1 ELSE n
        k == IF m >= 1 /\ line[m] = "\r" THEN m - 1 ELSE m
    IN  SubSeq(line, 1, k)

DigestLineHead(path) == s_sha1 \o path \o s_closeeq

\* the text after "SHA1(<path>)= "
HexOf(line, path) ==
    SubSeq(LineBody(line), Len(DigestLineHead(path)) + 1, Len(LineBody(line)))

\* line has the form SHA1(<path>)= <hex>
IsDigestLineFor(line, path) ==
    /\ StartsWith(LineBody(line), DigestLineHead(path))
    /\ Len(HexOf(line, path)) > 0
    /\ \A k \in 1..Len(HexOf(line, path)) :
          HexOf(line, path)[k] \notin {" ", "\t", "\r", "\n", "(", ")", "="}

\* the Property elements of a document
PropertyElements(doc) ==
    {i \in 1..Len(doc) : i > 1 /\ doc[i].tag = QName(OVF, "Property")}

\* the value of a Property's ovf:key attribute
KeyOf(doc, p) == GetAttr(doc[p], QName(OVF, "key"))

\* the number a decimal numeral denotes
DigitValue(c) == CHOOSE d \in 0..9 : DigitChars[d + 1] = c
RECURSIVE NumeralValue(_)
NumeralValue(str) ==
    IF Len(str) = 0 THEN 0
    ELSE 10 * NumeralValue(SubSeq(str, 1, Len(str) - 1)) + DigitValue(str[Len(str)])

IsNumeral(str) ==
    /\ Len(str) > 0
    /\ \A k \in 1..Len(str) : \E d \in 0..9 : DigitChars[d + 1] = str[k]
    /\ Len(str) > 1 => str[1] # "0"

\* token is "vmx-" followed by the decimal form of n
IsVmxTokenOf(token, n) ==
    LET rest == SubSeq(token, 5, Len(token))
    IN  /\ Len(token) > 4
        /\ SubSeq(token, 1, 4) = <<"v", "m", "x", "-">>
        /\ IF n < 0
           THEN /\ rest[1] = "-"
                /\ IsNumeral(Tail(rest))
                /\ NumeralValue(Tail(rest)) = 0 - n
           ELSE IsNumeral(rest) /\ NumeralValue(rest) = n

\* text is the tokens of the list, in its order, joined by single spaces
IsVmxTextOf(text, types) ==
    IF Len(types) = 0 THEN text = <<>>
    ELSE /\ text # None
         /\ Len(Split(text, <<" ">>)) = Len(types)
         /\ \A k \in 1..Len(types) : IsVmxTokenOf(Split(text, <<" ">>)[k], types[k])

SystemHasBoth(doc) ==
    /\ SystemSection(doc) # 0
    /\ FindChild(doc, SystemSection(doc), QName(VSSD, "ElementName")) # 0
    /\ FindChild(doc, SystemSection(doc), QName(VSSD, "VirtualSystemType")) # 0

SystemLacksOne(doc) ==
    /\ SystemSection(doc) # 0
    /\ \/ FindChild(doc, SystemSection(doc), QName(VSSD, "ElementName")) = 0
       \/ FindChild(doc, SystemSection(doc), QName(VSSD, "VirtualSystemType")) = 0

\* a property record that is not user configurable
NotConfigurable(prop) == DictGet(prop, "ovf:userConfigurable") # s_true

\* a property record that gets the boolean prompt
IsBooleanRecord(prop) ==
    /\ DictGet(prop, "ovf:userConfigurable") = s_true
    /\ DictGet(prop, "ovf:type") = s_boolean

\* an answer after trimming and lower-casing
Trimmed(answer) == Lower(Strip(answer))
IsValidAnswer(answer) == Trimmed(answer) \in {s_true, s_false, <<>>}
RecordedFor(answer) == IF Trimmed(answer) = s_false THEN s_false ELSE s_true

\* the answers the specification lists, with what they resolve to
ListedAnswers == {<<t_True, s_true>>, <<t_FALSE, s_false>>,
                  <<t_true_padded, s_true>>, <<<<>>, s_true>>}

IsBooleanEntry(entry) == entry.prompt[Len(entry.prompt)] = "' (True/False): "

PositionIn(log, name) ==
    IF \E k \in 1..Len(log) : log[k] = name
    THEN SetMax({k \in 1..Len(log) : log[k] = name})
    ELSE 0

(***************************************************************************)
(* The claims.                                                             *)
(***************************************************************************)

\* C1: a run on the descriptor with the one string property org (Label
\* Organization, userConfigurable true) and the manifest with the one line
\* SHA1(disk1.vmdk)= <stale>, answered Acme, ends with an archive whose
\* descriptor has Label text Acme for org and whose manifest line carries
\* the digest of disk1.vmdk's bytes.
C1_EndToEnd ==
    (/\ pc = "done"
     /\ src[f_ova].members[f_ovf] = Xml(D_org, "authored")
     /\ src[f_ova].members[f_mf] = Bytes(l_disk)
     /\ f_disk \in DOMAIN src[f_ova].members
     /\ tty = <<[prompt |-> StringPrompt(t_Organization), answer |-> t_Acme]>>)
    => LET doc == archive.members[f_ovf].doc
           org == CHOOSE p \in PropertyElements(doc) : KeyOf(doc, p) = t_org
       IN  /\ doc[LabelOf(doc, org)].text = t_Acme
           /\ archive.members[f_mf] =
                  Bytes(l_disk_head \o Sha1Hex(archive.members[f_disk]) \o s_nl)

\* C2: the merge sets the Label text of every Property whose key attribute
\* is a key of the user value map (and which has a Label) to the mapped
\* value, and leaves every other Property element unchanged.
C2_ValueMerge ==
    [][(pc = "prompt" /\ pc' = "find_mf") =>
        \A p \in PropertyElements(xml_root) :
            IF KeyOf(xml_root, p) \in DOMAIN user_values /\ LabelOf(xml_root, p) # 0
            THEN xml_root'[LabelOf(xml_root, p)].text = user_values[KeyOf(xml_root, p)]
            ELSE \A i \in 1..Len(xml_root) :
                    (i = p \/ IsDescendant(xml_root, p, i)) => xml_root'[i] = xml_root[i]
      ]_vars

\* C3: after update_sha1_values every manifest line SHA1(<path>)= <hex>
\* whose path is a file under the root carries the SHA1 of that file's
\* bytes, whatever characters the path contains.
C3_DigestUpdated ==
    [][(pc = "update_sha1_values" /\ pc' = "create_tar_archive") =>
        \A path \in DOMAIN dst :
            \A i \in 1..Len(RawLines(dst[mf_file])) :
                IsDigestLineFor(RawLines(dst[mf_file])[i], path) =>
                    /\ i <= Len(RawLines(dst'[mf_file]))
                    /\ IsDigestLineFor(RawLines(dst'[mf_file])[i], path)
                    /\ HexOf(RawLines(dst'[mf_file])[i], path) = Sha1Hex(dst[path])
      ]_vars

\* C4: update_sha1_values keeps the number and order of the manifest's
\* lines, leaves every line that is not a digest line of a file under the
\* root byte-identical, and adds no entry for a file the manifest did not
\* list.
C4_ManifestFrame ==
    [][(pc = "update_sha1_values" /\ pc' = "create_tar_archive") =>
        LET before == RawLines(dst[mf_file])
            after == RawLines(dst'[mf_file])
        IN  /\ Len(after) = Len(before)
            /\ \A i \in 1..Len(before) :
                  (\A path \in DOMAIN dst : ~IsDigestLineFor(before[i], path))
                      => after[i] = before[i]
            /\ \A path \in DOMAIN dst :
                  (\E i \in 1..Len(after) : IsDigestLineFor(after[i], path))
                      => \E i \in 1..Len(before) : IsDigestLineFor(before[i], path)
      ]_vars

\* C5: when the System element has both ElementName and VirtualSystemType,
\* update_system_section makes the VirtualSystemType text exactly the tokens
\* vmx-<l> of the list, in its order, joined by single spaces, and changes
\* nothing else in the document.
C5_CompatibilityRewrite ==
    [][(pc = "call" /\ SystemHasBoth(xml_root)) =>
        LET type == FindChild(xml_root, SystemSection(xml_root),
                              QName(VSSD, "VirtualSystemType"))
        IN  /\ Len(xml_root') = Len(xml_root)
            /\ IsVmxTextOf(xml_root'[type].text, vmx_types)
            /\ xml_root'[type] = [xml_root[type] EXCEPT !.text = xml_root'[type].text]
            /\ \A i \in 1..Len(xml_root) : i # type => xml_root'[i] = xml_root[i]
      ]_vars

\* C5 witness: the call has rewritten a full System element for [10, 11, 12]
C5_Witness ==
    /\ pc = "returned"
    /\ vmx_types = <<10, 11, 12>>
    /\ SystemHasBoth(xml_root)
    /\ xml_root[FindChild(xml_root, SystemSection(xml_root),
                          QName(VSSD, "VirtualSystemType"))].text
         = <<"v", "m", "x", "-", "1", "0", " ", "v", "m", "x", "-", "1", "1", " ", "v", "m", "x", "-", "1", "2">>

\* C6: when the System element lacks ElementName or VirtualSystemType,
\* update_system_section raises nothing, changes nothing in the document
\* and returns the tree.
C6_RewriteNoOp ==
    [][(pc = "call" /\ SystemLacksOne(xml_root)) =>
        /\ xml_root' = xml_root
        /\ ret' = xml_root
        /\ error' = ""
        /\ pc' = "returned"
      ]_vars

\* C6 witness: the call has returned on a System without VirtualSystemType,
\* for the list [10, 11, 12]
C6_Witness ==
    /\ pc = "returned"
    /\ vmx_types = <<10, 11, 12>>
    /\ SystemSection(xml_root) # 0
    /\ FindChild(xml_root, SystemSection(xml_root), QName(VSSD, "ElementName")) # 0
    /\ FindChild(xml_root, SystemSection(xml_root), QName(VSSD, "VirtualSystemType")) = 0
    /\ ret = xml_root

\* C7: a property record whose userConfigurable is not 'true' gets no
\* prompt, keeps its fields (its value among them) through every step, and
\* adds no entry to the user value map, whatever its type and neighbours.
C7_NotConfigurable ==
    [][\A i \in 1..Len(properties_json) :
          NotConfigurable(properties_json[i]) =>
             /\ Len(properties_json') = Len(properties_json)
             /\ properties_json'[i] = properties_json[i]
             /\ (pc = "prompt" /\ idx = i) =>
                    /\ tty' = tty
                    /\ user_values' = user_values
                    /\ idx' = i + 1
      ]_vars

\* C7 witness: the loop has passed a boolean record whose userConfigurable
\* is 'True' without a prompt, its value still '1'
C7_Witness ==
    /\ pc = "prompt"
    /\ \E i \in 1..Len(properties_json) :
          /\ i < idx
          /\ DictGet(properties_json[i], "ovf:userConfigurable") = t_True
          /\ DictGet(properties_json[i], "ovf:type") = s_boolean
          /\ DictGet(properties_json[i], "ovf:value") = t_one
    /\ tty = <<>>
    /\ user_values = EmptyDict

\* C8: at the boolean prompt an answer is accepted exactly when, trimmed
\* and lower-cased, it is 'true', 'false' or empty; 'true' is recorded for
\* 'true' and empty, 'false' for 'false' ('True', 'FALSE', ' true ', '' give
\* true, false, true, true); any other answer records nothing and is
\* followed by the same prompt, and the loop moves on only when an answer
\* is accepted.
C8_BooleanPrompt ==
    /\ [](\A k \in 1..Len(tty) :
            (k < Len(tty) /\ IsBooleanEntry(tty[k]) /\ ~IsValidAnswer(tty[k].answer))
                => tty[k + 1].prompt = tty[k].prompt)
    /\ [][(/\ pc = "prompt"
           /\ idx <= Len(properties_json)
           /\ IsBooleanRecord(properties_json[idx])
           /\ tty' # tty) =>
          LET answer == tty'[Len(tty')].answer
              label == DictGet(properties_json[idx], "Label")
          IN  /\ Len(tty') = Len(tty) + 1
              /\ IsBooleanEntry(tty'[Len(tty')])
              /\ IF IsValidAnswer(answer)
                 THEN /\ idx' = idx + 1
                      /\ DictGet(properties_json'[idx], "ovf:value") = RecordedFor(answer)
                      /\ DictGet(user_values', label) = RecordedFor(answer)
                 ELSE /\ idx' = idx
                      /\ properties_json' = properties_json
                      /\ user_values' = user_values
              /\ \A pair \in ListedAnswers :
                    answer = pair[1] =>
                       /\ idx' = idx + 1
                       /\ DictGet(properties_json'[idx], "ovf:value") = pair[2]
              /\ answer = t_yes => idx' = idx
         ]_vars

\* C8 witness: 'yes' was rejected, the same prompt came again, and 'FALSE'
\* was recorded as 'false'
C8_Witness ==
    /\ Len(tty) = 2
    /\ tty[1].answer = t_yes
    /\ tty[2].answer = t_FALSE
    /\ tty[2].prompt = BooleanPrompt(t_Debug)
    /\ tty[1].prompt = tty[2].prompt
    /\ DictGet(user_values, t_Debug) = s_false

\* C9: a run that finds no archive, no descriptor or no manifest ends with
\* a NotFoundError before any later stage is invoked: no document parse
\* after a missing descriptor, no digest computation and no packing after a
\* missing manifest, and no output archive.
C9_FatalErrors ==
    /\ (OvaFiles(src) = {} /\ pc # "extract_ova") =>
          /\ pc = "failed"
          /\ error = "FileNotFoundError"
          /\ calls = <<"extract_ova">>
          /\ archive = NoArchive
    /\ ovf_file = None =>
          /\ pc = "failed" => error = "FileNotFoundError"
          /\ PositionIn(calls, "ET.parse") = 0
          /\ archive = NoArchive
    /\ mf_file = None =>
          /\ pc = "failed" => error = "FileNotFoundError"
          /\ sha1_values = EmptyDict
          /\ PositionIn(calls, "create_tar_archive") = 0
          /\ archive = NoArchive

\* C10: in a run that completes the descriptor is written before any digest
\* is computed and the manifest is rewritten before anything is packed, so
\* in the output archive every manifest digest line that names an archived
\* file carries the digest of that file's bytes as archived (a line of the
\* manifest about the manifest itself aside: no digest can satisfy it).
C10_StageOrdering ==
    pc = "done" =>
        /\ 0 < PositionIn(calls, "update_ovf_with_user_values")
        /\ PositionIn(calls, "update_ovf_with_user_values")
              < PositionIn(calls, "update_sha1_values")
        /\ PositionIn(calls, "update_sha1_values")
              < PositionIn(calls, "create_tar_archive")
        /\ \A path \in DOMAIN archive.members \ {mf_file} :
              \A i \in 1..Len(RawLines(archive.members[mf_file])) :
                  IsDigestLineFor(RawLines(archive.members[mf_file])[i], path) =>
                      HexOf(RawLines(archive.members[mf_file])[i], path)
                          = Sha1Hex(archive.members[path])

====
